---- MODULE Spec2Model ----
(***************************************************************************)
(* DeustoGPT front end: the per-agent knowledge base (DocumentService),    *)
(* its callers in the teacher form and in the student chat.                *)
(*                                                                         *)
(* Spec      the knowledge base on disk: uploads, builds and searches of   *)
(*           several Streamlit sessions, one thread per session, over one  *)
(*           upload directory.                                             *)
(* SpecChat  one student session: dashboard, chat, chat turns.             *)
(***************************************************************************)
EXTENDS Integers, Sequences, FiniteSets, Bags, TLC

(***************************************************************************)
(* Bounds of the model.                                                    *)
(***************************************************************************)
MaxBuilds == 2        \* builds started in one behaviour
MaxFiles  == 1        \* files uploaded for one build
MaxK      == 1        \* largest k a search asks for in Spec

VARIABLES
    files,          \* upload_dir: path -> stored document
    store,          \* upload_dir: path -> vector store directory
    kb,             \* st.session_state.agent_knowledge_bases of each session
    pc,             \* where each teacher session is
    target,         \* agent_id of the session's build
    file_paths,     \* paths returned by process_uploaded_file, in order
    vector_store,   \* the index FAISS.from_documents built in memory
    ret,            \* what create_knowledge_base_for_agent returned
    err,            \* the exception it caught and logged
    nBuilds,        \* builds started so far
    spc,            \* where the searching session is
    sAgent, sQuery, sK,     \* arguments of its similarity_search
    sVecs,          \* what load_local has read of index.faiss
    sResult,        \* what similarity_search returned
    pre,            \* history: the agent's directory when the build began
    solo,           \* history: no other build of the same agent overlapped
    started,        \* history: the agents a build was ever started for
    sAllowed,       \* history: the results of the whole indexes the search may see
    sWhole,         \* history: the directory held one whole index when the search began
    current_agent_id,   \* st.session_state.current_agent_id of the student
    messages,       \* st.session_state.messages
    llm_service,    \* st.session_state.llm_service
    turn,           \* history: the last chat turn of the open chat
    nTurns,         \* chat turns so far
    memory_of,      \* history: the agent each exchange in the memory was with
    tie_order,      \* how the installed index library orders equal distances
    sPrev,          \* history: the search before the last one, if it asked the same
    attempts,       \* embedding attempts of the build of each session
    fpc,            \* create_new_agent: where the call of the form is
    form_paths,     \* create_new_agent: file_paths
    agent,          \* create_new_agent: what Agent.create returned
    created_agents, \* st.session_state.created_agents
    agent_settings, \* st.session_state.agent_settings: the ids that have an entry
    form_build,     \* history: the build the call has invoked
    result,         \* what create_new_agent returned
    nForms,         \* forms submitted so far
    doc_path,       \* the file_path load_document is called with
    doc_text,       \* the text the loader extracts from that file
    doc_error,      \* what the loader raises on that file, "none" if nothing
    splitter,       \* chunk_size and chunk_overlap of the text splitter
    loaded,         \* what the last load_document call chose and returned
    loaded_before,  \* history: the same of the call before
    nLoads          \* load_document calls so far

kbVars     == <<files, store, kb>>
buildVars  == <<pc, target, file_paths, vector_store, ret, err, nBuilds,
                pre, solo, started>>
searchVars == <<spc, sAgent, sQuery, sK, sVecs, sResult, sAllowed, sWhole>>
chatVars   == <<current_agent_id, messages, llm_service, turn, nTurns,
                 memory_of>>
loadVars   == <<doc_path, doc_text, doc_error, splitter, loaded, loaded_before,
                 nLoads>>
formVars   == <<fpc, form_paths, agent, created_agents, agent_settings,
                 form_build, result, nForms>>
moreVars   == <<tie_order, sPrev, attempts, loadVars, formVars>>
vars       == <<kbVars, buildVars, searchVars, chatVars, moreVars>>

Agents    == {"A", "B"}
Teachers  == {"t1", "t2"}           \* sessions that run create_new_agent
FileNames == {"f1", "f2"}           \* uploaded_file.name
Queries   == {1, 2}                 \* a query, named by its text

(***************************************************************************)
(* A stored document.  readable = FALSE is a file its loader raises on.    *)
(* segs are the segments the loader returns (pages, rows, the whole text); *)
(* every segment here is shorter than chunk_size, so the splitter returns  *)
(* it as one chunk, and an empty file gives none.                          *)
(***************************************************************************)
Absent   == [readable |-> FALSE, segs |-> <<>>]
Contents == { [readable |-> FALSE, segs |-> <<>>],
              [readable |-> TRUE,  segs |-> <<>>],
              [readable |-> TRUE,  segs |-> <<1>>],
              [readable |-> TRUE,  segs |-> <<2, 3>>] }

\* OpenAIEmbeddings: the vector of a text.  Texts 2 and 3 share a vector.
Embed(t) == (t + 2) \div 2

\* L2 distance of two vectors, the score FAISS reports (smaller is nearer).
Dist(v, w) == IF v >= w THEN v - w ELSE w - v

(***************************************************************************)
(* The files of one persisted index, vector_store_<agent_id>/index.faiss   *)
(* (the vectors) and index.pkl (the docstore).                             *)
(***************************************************************************)
NoFile       == [st |-> "absent", data |-> <<>>]
Truncated    == [st |-> "partial", data |-> <<>>]
Written(d)   == [st |-> "full", data |-> d]
NoStore      == [dir |-> FALSE, faiss |-> NoFile, pkl |-> NoFile]
NoIndex      == [vecs |-> <<>>, docs |-> <<>>]
NoRecord     == [file_count |-> 0, chunk_count |-> 0, file_paths |-> <<>>]


(***************************************************************************)
(* Pure parts of DocumentService.                                          *)
(***************************************************************************)

\* os.path.join(upload_dir, uploaded_file.name): the name alone is the key.
upload_path(name) == name

\* A store path that leaves the agent out.
vector_store_path_shared(agent_id) == "A"

\* os.path.join(upload_dir, f"vector_store_{agent_id}")
vector_store_path(agent_id) == agent_id

\* A mutation of load_document: every chunk names the first upload as its
\* source.
load_document_one_source(path, doc) ==
    [i \in 1..Len(doc.segs) |-> [page_content |-> doc.segs[i], source |-> "f1"]]

\* loader.load() and text_splitter.split_documents(): one chunk per segment,
\* each carrying the path it was loaded from as metadata["source"].
load_document(path, doc) ==
    [i \in 1..Len(doc.segs) |-> [page_content |-> doc.segs[i], source |-> path]]

\* FAISS.from_documents: every chunk is embedded, in the order given.
from_documents(documents) ==
    [vecs |-> [i \in 1..Len(documents) |-> Embed(documents[i].page_content)],
     docs |-> documents]

\* A mutation of kb_record: the files are counted in place of the chunks.
kb_record_counts_files(paths, documents) ==
    [file_count |-> Len(paths), chunk_count |-> Len(paths),
     file_paths |-> paths]

\* The record create_knowledge_base_for_agent leaves in session state.
kb_record(paths, documents) ==
    [file_count |-> Len(paths), chunk_count |-> Len(documents),
     file_paths |-> paths]

\* The order of two hits at the same distance.  The source takes the
\* order the index library returns and sorts nothing itself; the library's
\* result heap compares (distance, position) in some releases and the
\* distance alone in others, and then pops equal distances last in, first
\* out.
TieOrders == {"by_position", "by_heap"}
TieBefore(i, j) == IF tie_order = "by_position" THEN i <= j ELSE i >= j

\* The k positions the scan of a flat index keeps: a vector replaces the
\* worst kept one only when it is strictly nearer, so of equal distances
\* the lower positions stay.
Nearest(vecs, qv, k) ==
    { i \in DOMAIN vecs :
        Cardinality({ j \in DOMAIN vecs :
                        \/ Dist(vecs[j], qv) < Dist(vecs[i], qv)
                        \/ Dist(vecs[j], qv) = Dist(vecs[i], qv) /\ j < i }) < k }

\* A mutation of Ranked: the farthest vector first.
RECURSIVE Ranked_farthest(_, _, _)
Ranked_farthest(vecs, qv, todo) ==
    IF todo = {} THEN <<>>
    ELSE LET best == CHOOSE i \in todo :
                        \A j \in todo :
                            \/ Dist(vecs[i], qv) > Dist(vecs[j], qv)
                            \/ Dist(vecs[i], qv) = Dist(vecs[j], qv) /\ TieBefore(i, j)
         IN  <<best>> \o Ranked_farthest(vecs, qv, todo \ {best})

\* The positions todo of vecs ordered by distance to the query vector,
\* nearest first.
RECURSIVE Ranked(_, _, _)
Ranked(vecs, qv, todo) ==
    IF todo = {} THEN <<>>
    ELSE LET best == CHOOSE i \in todo :
                        \A j \in todo :
                            \/ Dist(vecs[i], qv) < Dist(vecs[j], qv)
                            \/ Dist(vecs[i], qv) = Dist(vecs[j], qv) /\ TieBefore(i, j)
         IN  <<best>> \o Ranked(vecs, qv, todo \ {best})

Min(a, b) == IF a <= b THEN a ELSE b

\* vector_store.similarity_search_with_score(query, k), then the formatting
\* loop.  A hit whose position has no docstore entry makes the library
\* raise; the except branch then returns [].
search_loaded(index, query, k) ==
    LET qv   == Embed(query)
        hits == Ranked(index.vecs, qv, Nearest(index.vecs, qv, k))
    IN  IF \E n \in DOMAIN hits : hits[n] \notin DOMAIN index.docs
        THEN <<>>
        ELSE [n \in DOMAIN hits |->
                [content |-> index.docs[hits[n]].page_content,
                 metadata |-> index.docs[hits[n]].source,
                 relevance_score |-> Dist(index.vecs[hits[n]], qv)]]

\* FAISS.load_local succeeds when both files are there in full.
Loadable(dir) == dir.dir /\ dir.faiss.st = "full" /\ dir.pkl.st = "full"

\* The directory holds the two files of one index.
Whole(dir) ==
    Loadable(dir) /\ dir.faiss.data = from_documents(dir.pkl.data).vecs

\* A mutation of search_disk: a directory whose docstore cannot be read is
\* searched by its vectors alone, the hits without content.
search_disk_vectors_only(dir, query, k) ==
    IF Loadable(dir)
    THEN search_loaded([vecs |-> dir.faiss.data, docs |-> dir.pkl.data], query, k)
    ELSE IF dir.dir /\ dir.faiss.st = "full"
    THEN [n \in 1..Min(k, Len(dir.faiss.data)) |->
             [content |-> 0, metadata |-> "none",
              relevance_score |-> Dist(dir.faiss.data[n], Embed(query))]]
    ELSE <<>>

\* What a search of the directory as it stands returns: load_vector_store
\* gives None when the directory is missing or load_local raises.
search_disk(dir, query, k) ==
    IF Loadable(dir)
    THEN search_loaded([vecs |-> dir.faiss.data, docs |-> dir.pkl.data], query, k)
    ELSE <<>>

\* A mutation of Saved: the docstore is written in the reverse order of the
\* vectors.
Saved_reversed(index) ==
    [dir |-> TRUE, faiss |-> Written(index.vecs),
     pkl |-> Written([i \in DOMAIN index.docs |->
                         index.docs[Len(index.docs) + 1 - i]])]

\* The directory a finished save_local of the index leaves.
Saved(index) ==
    [dir |-> TRUE, faiss |-> Written(index.vecs), pkl |-> Written(index.docs)]

\* The file lists a form can carry: up to MaxFiles files of different names.
Upload      == [name : FileNames, content : Contents]
UploadLists ==
    { ups \in UNION { [1..n -> Upload] : n \in 1..MaxFiles } :
        \A i, j \in DOMAIN ups : i # j => ups[i].name # ups[j].name }

\* "for file in uploaded_files: process_uploaded_file(file)": each file is
\* written under its own name, a later one over an earlier one.
RECURSIVE write_uploads(_, _)
write_uploads(fs, ups) ==
    IF ups = <<>> THEN fs
    ELSE write_uploads([fs EXCEPT ![upload_path(Head(ups).name)] = Head(ups).content],
                       Tail(ups))

\* "for file_path in file_paths: all_documents.extend(load_document(...))"
RECURSIVE load_all(_, _)
load_all(paths, fs) ==
    IF paths = <<>> THEN <<>>
    ELSE load_document(Head(paths), fs[Head(paths)]) \o load_all(Tail(paths), fs)

\* The first path of the list whose loader raises, "none" if none does.
RECURSIVE first_unreadable(_, _)
first_unreadable(paths, fs) ==
    IF paths = <<>> THEN "none"
    ELSE IF ~fs[Head(paths)].readable THEN Head(paths)
    ELSE first_unreadable(Tail(paths), fs)


None   == "None"
NoLLM  == [personality |-> "none", memory |-> <<>>]
NoTurn == [answered |-> FALSE, agent |-> None, question |-> 0,
           retrieval |-> "none", results |-> <<>>, context |-> <<>>,
           personality |-> "none", history_of |-> {}]

NoRaise  == [type |-> "none", cause |-> "none"]
NoLoad   == [loader |-> "none", chunks |-> <<>>, raised |-> NoRaise]
NoSearch == [agent |-> None, query |-> 0, k |-> 0, result |-> <<>>]

NoErr == [stage |-> "none", file |-> "none"]

\* The steps of save_local, in order.
SaveStages == {"faiss_open", "faiss_write", "pkl_open", "pkl_write"}
\* A session between the first line of create_knowledge_base_for_agent and
\* its return.
InBuild(t) == pc[t] \in {"load", "backoff"} \cup SaveStages

\* The student session before the first click.
ChatInit ==
    /\ current_agent_id = None
    /\ messages = <<>>
    /\ llm_service = NoLLM
    /\ turn = NoTurn
    /\ nTurns = 0
    /\ memory_of = <<>>

\* The sessions of Spec before the first form and the first search.
SessionsInit ==
    /\ kb = [t \in Teachers |-> [a \in Agents |-> NoRecord]]
    /\ pc = [t \in Teachers |-> "idle"]
    /\ target = [t \in Teachers |-> "A"]
    /\ file_paths = [t \in Teachers |-> <<>>]
    /\ vector_store = [t \in Teachers |-> NoIndex]
    /\ ret = [t \in Teachers |-> "none"]
    /\ err = [t \in Teachers |-> NoErr]
    /\ nBuilds = 0
    /\ spc = "idle"
    /\ sAgent = "A"
    /\ sQuery = 1
    /\ sK = 1
    /\ sVecs = <<>>
    /\ sResult = <<>>
    /\ pre = [t \in Teachers |-> NoStore]
    /\ solo = [t \in Teachers |-> TRUE]
    /\ started = {}
    /\ sAllowed = {}
    /\ sWhole = FALSE
    /\ sPrev = NoSearch
    /\ attempts = [t \in Teachers |-> 0]
    /\ tie_order \in TieOrders

\* No load_document call yet.
\* No agent yet, no build invoked, nothing returned.
NoAgent  == [id |-> "None", origin |-> "none", files |-> <<>>]
NoCall   == [invoked |-> FALSE, agent_id |-> "None", file_paths |-> <<>>,
             returned |-> "none"]
NoResult == [success |-> FALSE, agent_id |-> "None"]

\* The teacher session before the first form is submitted.
FormInit ==
    /\ fpc = "idle"
    /\ form_paths = <<>>
    /\ agent = NoAgent
    /\ created_agents = <<>>
    /\ agent_settings = {}
    /\ form_build = NoCall
    /\ result = NoResult
    /\ nForms = 0

LoadInit ==
    /\ loaded = NoLoad
    /\ loaded_before = NoLoad
    /\ nLoads = 0

\* The file and the splitter of the specifications that load no single
\* file of their own.
NoDocument ==
    /\ doc_path = "none"
    /\ doc_text = <<>>
    /\ doc_error = "none"
    /\ splitter = [chunk_size |-> 0, chunk_overlap |-> 0]

Init ==
    /\ files = [f \in FileNames |-> Absent]
    /\ store = [a \in Agents |-> NoStore]
    /\ SessionsInit
    /\ ChatInit
    /\ LoadInit
    /\ FormInit
    /\ NoDocument

(***************************************************************************)
(* create_new_agent with files: the uploads are stored, the agent is       *)
(* created (agent_id is the id Agent.create returns) and                   *)
(* create_knowledge_base_for_agent(agent.id, file_paths) is entered.  A    *)
(* form without files never reaches the knowledge base.                    *)
(***************************************************************************)
Submit(t, agent_id, ups) ==
    /\ pc[t] \in {"idle", "done"}
    /\ nBuilds < MaxBuilds
    /\ nBuilds' = nBuilds + 1
    /\ files' = write_uploads(files, ups)
    /\ file_paths' = [file_paths EXCEPT ![t] =
                         [i \in DOMAIN ups |-> upload_path(ups[i].name)]]
    /\ target' = [target EXCEPT ![t] = agent_id]
    /\ pc' = [pc EXCEPT ![t] = "load"]
    /\ vector_store' = [vector_store EXCEPT ![t] = NoIndex]
    /\ ret' = [ret EXCEPT ![t] = "none"]
    /\ err' = [err EXCEPT ![t] = NoErr]
    /\ pre' = [pre EXCEPT ![t] = store[vector_store_path(agent_id)]]
    /\ solo' = [u \in Teachers |->
                  IF u = t
                  THEN \A v \in Teachers \ {t} :
                          ~(InBuild(v) /\ target[v] = agent_id)
                  ELSE solo[u] /\ ~(pc[u] # "idle" /\ target[u] = agent_id)]
    /\ started' = started \cup {agent_id}
    /\ attempts' = [attempts EXCEPT ![t] = 0]
    /\ UNCHANGED <<chatVars, tie_order, sPrev, loadVars, formVars, store, kb,
                   searchVars>>

\* The loading loop raises: load_document turns the loader's exception on
\* a file it cannot read into ValueError, the except branch returns False.
LoadFail(t) ==
    /\ pc[t] = "load"
    /\ first_unreadable(file_paths[t], files) # "none"
    /\ pc' = [pc EXCEPT ![t] = "done"]
    /\ ret' = [ret EXCEPT ![t] = "False"]
    /\ err' = [err EXCEPT ![t] =
                  [stage |-> "load",
                   file |-> first_unreadable(file_paths[t], files)]]
    /\ UNCHANGED <<chatVars, moreVars, kbVars, searchVars, target, file_paths, vector_store,
                   nBuilds, pre, solo, started>>

\* "if not all_documents: return False": nothing was raised.
NoDocuments(t) ==
    /\ pc[t] = "load"
    /\ first_unreadable(file_paths[t], files) = "none"
    /\ load_all(file_paths[t], files) = <<>>
    /\ pc' = [pc EXCEPT ![t] = "done"]
    /\ ret' = [ret EXCEPT ![t] = "False"]
    /\ UNCHANGED <<chatVars, moreVars, kbVars, searchVars, target, file_paths, vector_store,
                   err, nBuilds, pre, solo, started>>

\* The files are loaded and FAISS.from_documents returns the index.
BuildIndex(t) ==
    /\ pc[t] = "load"
    /\ first_unreadable(file_paths[t], files) = "none"
    /\ load_all(file_paths[t], files) # <<>>
    /\ vector_store' = [vector_store EXCEPT ![t] =
                           from_documents(load_all(file_paths[t], files))]
    /\ pc' = [pc EXCEPT ![t] = "faiss_open"]
    /\ sAllowed' =
          IF spc = "read_pkl" /\ target[t] = sAgent
          THEN sAllowed \cup
                 {search_loaded(from_documents(load_all(file_paths[t], files)),
                                sQuery, sK)}
          ELSE sAllowed
    /\ UNCHANGED <<chatVars, moreVars, kbVars, spc, sAgent, sQuery, sK, sVecs, sResult, sWhole, target,
                   file_paths, ret, err, nBuilds, pre, solo, started>>

\* The files are loaded and FAISS.from_documents raises: the embedding
\* call failed.
EmbedFail(t) ==
    /\ pc[t] = "load"
    /\ first_unreadable(file_paths[t], files) = "none"
    /\ load_all(file_paths[t], files) # <<>>
    /\ pc' = [pc EXCEPT ![t] = "done"]
    /\ ret' = [ret EXCEPT ![t] = "False"]
    /\ err' = [err EXCEPT ![t] = [stage |-> "embed", file |-> "none"]]
    /\ UNCHANGED <<chatVars, moreVars, kbVars, searchVars, target, file_paths, vector_store,
                   nBuilds, pre, solo, started>>

(***************************************************************************)
(* vector_store.save_local(vector_store_path): the library makes the       *)
(* directory and writes index.faiss, then index.pkl, each opened for       *)
(* writing in place under its final name.                                  *)
(***************************************************************************)
NextStage(stage) ==
    CASE stage = "faiss_open"  -> "faiss_write"
      [] stage = "faiss_write" -> "pkl_open"
      [] stage = "pkl_open"    -> "pkl_write"
      [] stage = "pkl_write"   -> "done"

\* A save that adds to the files it finds instead of writing them anew.
save_local_step_merge(stage, dir, index) ==
    CASE stage = "faiss_open"  -> [dir EXCEPT !.dir = TRUE]
      [] stage = "faiss_write" ->
            [dir EXCEPT !.faiss = Written(dir.faiss.data \o index.vecs)]
      [] stage = "pkl_open"    -> dir
      [] stage = "pkl_write"   ->
            [dir EXCEPT !.pkl = Written(dir.pkl.data \o index.docs)]

save_local_step(stage, dir, index) ==
    CASE stage = "faiss_open"  -> [dir EXCEPT !.dir = TRUE, !.faiss = Truncated]
      [] stage = "faiss_write" -> [dir EXCEPT !.faiss = Written(index.vecs)]
      [] stage = "pkl_open"    -> [dir EXCEPT !.pkl = Truncated]
      [] stage = "pkl_write"   -> [dir EXCEPT !.pkl = Written(index.docs)]

\* One step of save_local; after the last one the record is put in session
\* state and True is returned.
SaveStep(t) ==
    /\ pc[t] \in SaveStages
    /\ store' = [store EXCEPT ![vector_store_path(target[t])] =
                    save_local_step(pc[t], @, vector_store[t])]
    /\ pc' = [pc EXCEPT ![t] = NextStage(@)]
    /\ IF pc[t] = "pkl_write"
       THEN /\ kb' = [kb EXCEPT ![t][target[t]] =
                         kb_record(file_paths[t], vector_store[t].docs)]
            /\ ret' = [ret EXCEPT ![t] = "True"]
       ELSE UNCHANGED <<kb, ret>>
    /\ UNCHANGED <<chatVars, moreVars, files, searchVars, target, file_paths, vector_store, err,
                   nBuilds, pre, solo, started>>

\* A step of save_local raises (OSError: disk full, no permission); what
\* was written so far stays, and the except branch returns False.
SaveFail(t) ==
    /\ pc[t] \in SaveStages
    /\ pc' = [pc EXCEPT ![t] = "done"]
    /\ ret' = [ret EXCEPT ![t] = "False"]
    /\ err' = [err EXCEPT ![t] = [stage |-> "persist", file |-> "none"]]
    /\ UNCHANGED <<chatVars, moreVars, kbVars, searchVars, target, file_paths, vector_store,
                   nBuilds, pre, solo, started>>

(***************************************************************************)
(* similarity_search(agent_id, query, k) of another session.               *)
(***************************************************************************)

\* load_vector_store: without the directory it returns None and
\* similarity_search returns []; with it FAISS.load_local reads index.faiss,
\* and a missing or cut-off file raises, which gives None and [] as well.
SearchStart(agent_id, query, k) ==
    /\ spc \in {"idle", "done", "raised"}
    /\ sAgent' = agent_id
    /\ sQuery' = query
    /\ sK' = k
    /\ sResult' = <<>>
    /\ sWhole' = Whole(store[vector_store_path(agent_id)])
    /\ sAllowed' =
          {search_disk(store[vector_store_path(agent_id)], query, k)}
          \cup {search_loaded(vector_store[t], query, k) :
                  t \in {u \in Teachers : pc[u] \in SaveStages
                                            /\ target[u] = agent_id}}
    /\ LET d == store[vector_store_path(agent_id)]
       IN  IF d.dir /\ d.faiss.st = "full"
           THEN /\ sVecs' = d.faiss.data
                /\ spc' = "read_pkl"
           ELSE /\ sVecs' = <<>>
                /\ spc' = "done"
    /\ UNCHANGED <<chatVars, moreVars, kbVars, buildVars>>

\* FAISS.load_local reads index.pkl, then similarity_search_with_score and
\* the formatting loop run on what was loaded.
SearchFinish ==
    /\ spc = "read_pkl"
    /\ LET f == store[vector_store_path(sAgent)].pkl
       IN  IF f.st = "full"
           THEN sResult' = search_loaded([vecs |-> sVecs, docs |-> f.data],
                                         sQuery, sK)
           ELSE sResult' = <<>>
    /\ sVecs' = <<>>
    /\ spc' = "done"
    /\ UNCHANGED <<chatVars, moreVars, kbVars, buildVars, sAgent, sQuery, sK, sAllowed, sWhole>>

\* A mutation of SearchRaises: the search removes the index it could not
\* use.
SearchRaises_clears ==
    /\ spc = "read_pkl"
    /\ store[vector_store_path(sAgent)].pkl.st = "full"
    /\ store' = [store EXCEPT ![vector_store_path(sAgent)] = NoStore]
    /\ sResult' = <<>>
    /\ sVecs' = <<>>
    /\ spc' = "raised"
    /\ UNCHANGED <<chatVars, moreVars, files, kb, buildVars, sAgent, sQuery, sK,
                   sAllowed, sWhole>>

\* similarity_search_with_score raises (the query could not be embedded):
\* the except branch returns [].
SearchRaises ==
    /\ spc = "read_pkl"
    /\ store[vector_store_path(sAgent)].pkl.st = "full"
    /\ sResult' = <<>>
    /\ sVecs' = <<>>
    /\ spc' = "raised"
    /\ UNCHANGED <<chatVars, moreVars, kbVars, buildVars, sAgent, sQuery, sK, sAllowed, sWhole>>

Next ==
    \/ \E t \in Teachers, a \in Agents, ups \in UploadLists : Submit(t, a, ups)
    \/ \E t \in Teachers : LoadFail(t)
    \/ \E t \in Teachers : NoDocuments(t)
    \/ \E t \in Teachers : BuildIndex(t)
    \/ \E t \in Teachers : EmbedFail(t)
    \/ \E t \in Teachers : SaveStep(t)
    \/ \E t \in Teachers : SaveFail(t)
    \/ \E a \in Agents, q \in Queries, k \in 1..MaxK : SearchStart(a, q, k)
    \/ SearchFinish
    \/ SearchRaises

Spec == Init /\ [][Next]_vars

(***************************************************************************)
(* The student session: the dashboard, the chat page and one chat turn.    *)
(* The knowledge bases on disk are fixed while the student chats.          *)
(***************************************************************************)
MaxTurns == 2         \* questions sent in one behaviour

\* k of similarity_search when the caller gives none.
DefaultK == 3
\* The references whose content process_user_input puts into the prompt.
ContextRefs == 2
\* k of the window memory of LLMService.
MemoryWindow == 4

Responses == {"r1", "r2"}

\* agent.personality of the agent record Agent.get_by_id returns.
Personality(agent_id) == [A |-> "pA", B |-> "pB"][agent_id]

\* The greeting on_chat_clicked puts first into the history.
Welcome(agent_id) ==
    [role |-> "assistant", content |-> [A |-> "hola A", B |-> "hola B"][agent_id]]

\* LLMService(personality): the chain with its prompt template and an
\* empty window memory.
LLMService(personality) == [personality |-> personality, memory |-> <<>>]

\* chain.predict(question): the answer is the model's; the chain saves the
\* exchange to its memory.
generate_response(llm, question, response) ==
    [llm EXCEPT !.memory = Append(@, [question |-> question, answer |-> response])]

\* A mutation of Prefix: the last n elements, the slice seq[-n:].
Prefix_last(seq, n) == SubSeq(seq, Len(seq) - Min(n, Len(seq)) + 1, Len(seq))

\* The first n elements of a sequence, as the slice seq[:n].
Prefix(seq, n) == SubSeq(seq, 1, Min(n, Len(seq)))

\* A mutation of similarity_search: when the search raises, the passages of
\* the loaded docstore are returned unranked.
similarity_search_fallback(dir, query, k, raises) ==
    IF raises /\ Loadable(dir)
    THEN [i \in 1..Min(k, Len(dir.pkl.data)) |->
             [content |-> dir.pkl.data[i].page_content,
              metadata |-> dir.pkl.data[i].source,
              relevance_score |-> 0]]
    ELSE search_disk(dir, query, k)

\* similarity_search(agent_id, query, k) on the directory of the agent:
\* no loadable index gives [], an exception of the search gives [].
similarity_search(dir, query, k, raises) ==
    IF raises THEN <<>> ELSE search_disk(dir, query, k)

\* How the retrieval of a turn went.
Retrieval(dir, raises) ==
    IF ~dir.dir THEN "absent"
    ELSE IF ~Loadable(dir) THEN "corrupt"
    ELSE IF raises \/ ~Whole(dir) THEN "raised"
    ELSE "ok"

\* The prompt handed to generate_response: the content of the first
\* references ahead of the question, or the question alone.
prompt_for(references, user_input) ==
    [context  |-> [i \in 1..Len(Prefix(references, ContextRefs)) |->
                      Prefix(references, ContextRefs)[i].content],
     question |-> user_input]

\* The assistant message: the references key exists only for a non-empty
\* list.
ai_message(response, references) ==
    IF references # <<>>
    THEN [role |-> "assistant", content |-> response, references |-> references]
    ELSE [role |-> "assistant", content |-> response]

\* The service the chat page uses: created for the agent of the page when
\* the session has none, the one of the session otherwise.
session_llm(llm, agent_id) ==
    IF llm = NoLLM THEN LLMService(Personality(agent_id)) ELSE llm

\* Directories a build can leave behind.
ChatFiles == [f1 |-> [readable |-> TRUE, segs |-> <<1>>],
              f2 |-> [readable |-> TRUE, segs |-> <<2, 3>>]]
ChatDocs1 == load_all(<<"f1">>, ChatFiles)
ChatDocs3 == load_all(<<"f1", "f2">>, ChatFiles)
ChatStores ==
    { NoStore,
      Saved(from_documents(ChatDocs1)),
      Saved(from_documents(ChatDocs3)),
      [dir |-> TRUE, faiss |-> Written(from_documents(ChatDocs3).vecs),
       pkl |-> Truncated] }

InitChat ==
    /\ files = ChatFiles
    /\ store \in [Agents -> ChatStores]
    /\ SessionsInit
    /\ ChatInit
    /\ LoadInit
    /\ FormInit
    /\ NoDocument

\* on_chat_clicked(agent_id) and the rerun that shows the chat page.
on_chat_clicked(agent_id, found) ==
    /\ current_agent_id = None
    /\ current_agent_id' = agent_id
    /\ messages' = <<Welcome(agent_id)>>
    /\ llm_service' = IF found THEN session_llm(llm_service, agent_id)
                               ELSE llm_service
    /\ turn' = NoTurn
    /\ UNCHANGED <<moreVars, kbVars, buildVars, searchVars, nTurns, memory_of>>

\* The back button of the chat page.
Back ==
    /\ current_agent_id # None
    /\ current_agent_id' = None
    /\ messages' = <<>>
    /\ turn' = NoTurn
    /\ UNCHANGED <<moreVars, kbVars, buildVars, searchVars, llm_service, nTurns,
                   memory_of>>

\* ConversationBufferWindowMemory(k=4): the exchanges of a memory of n
\* that are put into the prompt as chat_history.
Window(n) == {i \in 1..n : i > n - MemoryWindow}

\* The record of a turn.
TurnOf(agent_id, user_input, raises, llm, references, answered) ==
    [answered |-> answered, agent |-> agent_id, question |-> user_input,
     retrieval |-> Retrieval(store[vector_store_path(agent_id)], raises),
     results |-> references,
     context |-> prompt_for(references, user_input).context,
     personality |-> llm.personality,
     history_of |-> {memory_of[i] : i \in Window(Len(memory_of))}]

\* process_user_input with a question, the model answering.
ChatTurn(user_input, raises, response) ==
    /\ current_agent_id # None
    /\ nTurns < MaxTurns
    /\ nTurns' = nTurns + 1
    /\ LET llm        == session_llm(llm_service, current_agent_id)
           references == similarity_search(
                             store[vector_store_path(current_agent_id)],
                             user_input, DefaultK, raises)
       IN  /\ llm_service' = generate_response(
                                 llm, prompt_for(references, user_input), response)
           /\ messages' = messages \o
                             << [role |-> "user", content |-> user_input],
                                ai_message(response, references) >>
           /\ turn' = TurnOf(current_agent_id, user_input, raises, llm,
                             references, TRUE)
    /\ memory_of' = Append(memory_of, current_agent_id)
    /\ UNCHANGED <<moreVars, kbVars, buildVars, searchVars, current_agent_id>>

\* process_user_input with a question, generate_response raising: the run
\* of the page ends after the user message.
ChatTurnModelFails(user_input, raises) ==
    /\ current_agent_id # None
    /\ nTurns < MaxTurns
    /\ nTurns' = nTurns + 1
    /\ LET llm        == session_llm(llm_service, current_agent_id)
           references == similarity_search(
                             store[vector_store_path(current_agent_id)],
                             user_input, DefaultK, raises)
       IN  /\ llm_service' = llm
           /\ messages' = Append(messages,
                                 [role |-> "user", content |-> user_input])
           /\ turn' = TurnOf(current_agent_id, user_input, raises, llm,
                             references, FALSE)
    /\ UNCHANGED <<moreVars, kbVars, buildVars, searchVars, current_agent_id,
                   memory_of>>

NextChat ==
    \/ \E a \in Agents, found \in BOOLEAN : on_chat_clicked(a, found)
    \/ Back
    \/ \E q \in Queries, raises \in BOOLEAN, r \in Responses : ChatTurn(q, raises, r)
    \/ \E q \in Queries, raises \in BOOLEAN : ChatTurnModelFails(q, raises)

SpecChat == InitChat /\ [][NextChat]_vars

(***************************************************************************)
(* One teacher session building knowledge bases to the end, one after the  *)
(* other, and searches between the builds.  Every similarity_search loads  *)
(* the index from the directory, as a DocumentService created after a      *)
(* restart does.                                                           *)
(***************************************************************************)
MaxIndexFiles == 2    \* files uploaded for one build in SpecSearch
MaxSearchK    == 3    \* largest k a search asks for in SpecSearch

IndexUploads ==
    { ups \in UNION { [1..n -> Upload] : n \in 1..MaxIndexFiles } :
        \A i, j \in DOMAIN ups : i # j => ups[i].name # ups[j].name }

paths_of(ups) == [i \in DOMAIN ups |-> upload_path(ups[i].name)]

\* create_new_agent with readable files that give at least one chunk, run
\* to its end: uploads stored, chunks loaded, index built and saved, record
\* written, True returned.
build_knowledge_base(t, agent_id, ups) ==
    /\ pc[t] \in {"idle", "done"}
    /\ nBuilds < MaxBuilds
    /\ LET fs        == write_uploads(files, ups)
           paths     == paths_of(ups)
           documents == load_all(paths, fs)
       IN  /\ first_unreadable(paths, fs) = "none"
           /\ documents # <<>>
           /\ files' = fs
           /\ file_paths' = [file_paths EXCEPT ![t] = paths]
           /\ vector_store' = [vector_store EXCEPT ![t] = from_documents(documents)]
           /\ store' = [store EXCEPT ![vector_store_path(agent_id)] =
                                        Saved(from_documents(documents))]
           /\ kb' = [kb EXCEPT ![t][agent_id] = kb_record(paths, documents)]
    /\ nBuilds' = nBuilds + 1
    /\ target' = [target EXCEPT ![t] = agent_id]
    /\ pc' = [pc EXCEPT ![t] = "done"]
    /\ ret' = [ret EXCEPT ![t] = "True"]
    /\ err' = [err EXCEPT ![t] = NoErr]
    /\ pre' = [pre EXCEPT ![t] = store[vector_store_path(agent_id)]]
    /\ started' = started \cup {agent_id}
    /\ spc' = "idle"
    /\ sPrev' = NoSearch
    /\ UNCHANGED <<chatVars, solo, sAgent, sQuery, sK, sVecs, sResult,
                   sAllowed, sWhole, tie_order, attempts, loadVars, formVars>>

\* similarity_search(agent_id, query, k) with nothing running beside it.
search(agent_id, query, k) ==
    /\ sPrev' = IF spc = "done" /\ sAgent = agent_id /\ sQuery = query /\ sK = k
                THEN [agent |-> sAgent, query |-> sQuery, k |-> sK,
                      result |-> sResult]
                ELSE NoSearch
    /\ sAgent' = agent_id
    /\ sQuery' = query
    /\ sK' = k
    /\ sResult' = search_disk(store[vector_store_path(agent_id)], query, k)
    /\ spc' = "done"
    /\ UNCHANGED <<chatVars, kbVars, buildVars, sVecs, sAllowed, sWhole,
                   tie_order, attempts, loadVars, formVars>>

NextSearch ==
    \/ \E a \in Agents, ups \in IndexUploads : build_knowledge_base("t1", a, ups)
    \/ \E a \in Agents, q \in Queries, k \in 1..MaxSearchK : search(a, q, k)

SpecSearch == Init /\ [][NextSearch]_vars

(***************************************************************************)
(* load_document on one file: the loader chosen from the extension, the    *)
(* text it extracts, and RecursiveCharacterTextSplitter on that text.  A   *)
(* text is a sequence of characters; the scenario with the splitter of     *)
(* the source counts in blocks of 100 characters (Blocks).                 *)
(***************************************************************************)
MaxTextLen == 4       \* characters of a text in SpecLoad
MaxLoads   == 2       \* load_document calls on the file in SpecLoad

chunk_size    == 1000
chunk_overlap == 200
Blocks(n) == n \div 100

Chars == {"a", "b", " "}
Texts == UNION { [1..n -> Chars] : n \in 0..MaxTextLen }

\* Documents of 2500 characters, in blocks: one without any separator, one
\* with white space in it.
PlainDocument  == [i \in 1..Blocks(2500) |-> IF i % 3 = 1 THEN "a"
                                             ELSE IF i % 3 = 2 THEN "b" ELSE "c"]
SpacedDocument == [PlainDocument EXCEPT ![7] = " "]

\* What loader.load() raises on a file it cannot read or parse.
LoaderErrors == {"FileNotFoundError", "PdfReadError"}

\* file_path values and what os.path.splitext(file_path)[1] is of each.
FilePaths ==
    {"n.pdf", "n.PDF", "n.Pdf", "n.txt", "n.TXT", "n.md", "n.Md",
     "n.csv", "n.CSV", "n.docx", "n.tar.gz", "n"}
splitext(file_path) ==
    CASE file_path = "n.pdf"    -> ".pdf"
      [] file_path = "n.PDF"    -> ".PDF"
      [] file_path = "n.Pdf"    -> ".Pdf"
      [] file_path = "n.txt"    -> ".txt"
      [] file_path = "n.TXT"    -> ".TXT"
      [] file_path = "n.md"     -> ".md"
      [] file_path = "n.Md"     -> ".Md"
      [] file_path = "n.csv"    -> ".csv"
      [] file_path = "n.CSV"    -> ".CSV"
      [] file_path = "n.docx"   -> ".docx"
      [] file_path = "n.tar.gz" -> ".gz"
      [] file_path = "n"        -> ""

\* A mutation of lower: the extension as it is written.
lower_unchanged(ext) == ext

\* str.lower() on the extensions above.
lower(ext) ==
    CASE ext \in {".pdf", ".PDF", ".Pdf"} -> ".pdf"
      [] ext \in {".txt", ".TXT"}         -> ".txt"
      [] ext \in {".md", ".Md"}           -> ".md"
      [] ext \in {".csv", ".CSV"}         -> ".csv"
      [] OTHER                            -> ext

\* The if/elif chain of load_document.
loader_for(file_path) ==
    LET file_extension == lower(splitext(file_path))
    IN  IF file_extension = ".pdf" THEN "PyPDFLoader"
        ELSE IF file_extension \in {".txt", ".md"} THEN "TextLoader"
        ELSE IF file_extension = ".csv" THEN "CSVLoader"
        ELSE "UnstructuredFileLoader"

\* str.strip() of a chunk.
RECURSIVE strip_left(_)
strip_left(t) == IF t # <<>> /\ Head(t) = " " THEN strip_left(Tail(t)) ELSE t
RECURSIVE strip_right(_)
strip_right(t) ==
    IF t # <<>> /\ t[Len(t)] = " " THEN strip_right(SubSeq(t, 1, Len(t) - 1)) ELSE t
strip(t) == strip_right(strip_left(t))

\* "".join(pieces)
RECURSIVE join(_)
join(pieces) == IF pieces = <<>> THEN <<>> ELSE Head(pieces) \o join(Tail(pieces))

\* _join_docs: the pieces joined and stripped, nothing when that is empty.
join_docs(docs, current_doc) ==
    IF strip(join(current_doc)) = <<>> THEN docs
    ELSE Append(docs, strip(join(current_doc)))

\* total in _merge_splits: the characters of the pieces a..b of splits.
total(splits, a, b) ==
    IF a > b THEN 0 ELSE BagCardinality([p \in a..b |-> Len(splits[p])])

\* The while loop of _merge_splits: pieces are dropped from the front of
\* current_doc (the pieces a..(i - 1)) until what is kept is no longer than
\* the overlap and the piece i fits; the result is the first piece kept.
pop_front(splits, a, i, size, overlap) ==
    CHOOSE b \in a..i :
        /\ ~ \/ total(splits, b, i - 1) > overlap
             \/ /\ total(splits, b, i - 1) + Len(splits[i]) > size
                /\ total(splits, b, i - 1) > 0
        /\ \A c \in a..(b - 1) :
               \/ total(splits, c, i - 1) > overlap
               \/ /\ total(splits, c, i - 1) + Len(splits[i]) > size
                  /\ total(splits, c, i - 1) > 0

\* The for loop of _merge_splits with the empty separator, from the state
\* where current_doc is the pieces a..i: the next piece that does not fit
\* closes the chunk, and the loop goes on with what pop_front keeps.
RECURSIVE merge_from(_, _, _, _, _, _)
merge_from(splits, a, i, docs, size, overlap) ==
    LET over == {j \in (i + 1)..Len(splits) :
                     total(splits, a, j - 1) + Len(splits[j]) > size}
    IN  IF over = {}
        THEN join_docs(docs, SubSeq(splits, a, Len(splits)))
        ELSE LET j == CHOOSE j \in over : \A h \in over : j <= h
             IN  merge_from(splits, pop_front(splits, a, j, size, overlap), j,
                            join_docs(docs, SubSeq(splits, a, j - 1)),
                            size, overlap)

\* _merge_splits: whole pieces are collected into chunks of at most size
\* characters.
merge_splits(splits, size, overlap) ==
    IF splits = <<>> THEN <<>> ELSE merge_from(splits, 1, 1, <<>>, size, overlap)

\* _split_text_with_regex with keep_separator: a piece begins at every
\* separator; without a separator the pieces are the characters.
RECURSIVE pieces_from(_, _)
pieces_from(text, i) ==
    IF i > Len(text) THEN <<>>
    ELSE LET next == IF \E j \in (i + 1)..Len(text) : text[j] = " "
                     THEN CHOOSE j \in (i + 1)..Len(text) :
                              /\ text[j] = " "
                              /\ \A h \in (i + 1)..(j - 1) : text[h] # " "
                     ELSE Len(text) + 1
         IN  <<SubSeq(text, i, next - 1)>> \o pieces_from(text, next)
characters(text) == [i \in 1..Len(text) |-> <<text[i]>>]

\* The loop of _split_text over the pieces: the pieces shorter than the
\* chunk size that precede a longer one are merged, and the longer one is
\* split again by the next separator (deeper), which after the white space
\* is the empty one.
RECURSIVE split_pieces(_, _, _, _)
split_pieces(splits, deeper, size, overlap) ==
    LET long == {i \in DOMAIN splits : Len(splits[i]) >= size}
    IN  IF long = {}
        THEN merge_splits(splits, size, overlap)
        ELSE LET i == CHOOSE i \in long : \A h \in long : i <= h
             IN  merge_splits(SubSeq(splits, 1, i - 1), size, overlap)
                   \o (IF deeper
                       THEN split_pieces(characters(splits[i]), FALSE,
                                         size, overlap)
                       ELSE <<splits[i]>>)
                   \o split_pieces(SubSeq(splits, i + 1, Len(splits)), deeper,
                                   size, overlap)

\* _split_text(text, separators): the first separator found in the text
\* splits it.
recursive_split(text, size, overlap) ==
    IF \E i \in DOMAIN text : text[i] = " "
    THEN split_pieces(pieces_from(text, 1), TRUE, size, overlap)
    ELSE split_pieces(characters(text), FALSE, size, overlap)

\* A mutation of split_text: the last chunk of the call before is carried
\* into the next call.
split_text_carry(text, size, overlap) ==
    (IF loaded.chunks # <<>>
     THEN <<loaded.chunks[Len(loaded.chunks)]>> ELSE <<>>)
    \o recursive_split(text, size, overlap)

\* text_splitter.split_text(text)
split_text(text, size, overlap) == recursive_split(text, size, overlap)

\* The splitters of SpecLoad: small ones for the short texts, the one of
\* the source (in blocks) for the documents.
Splitters ==
    { [chunk_size |-> c, chunk_overlap |-> o] : c \in 2..3, o \in 0..2 }
LoadInputs ==
    { <<t, sp>> \in Texts \X Splitters : sp.chunk_overlap < sp.chunk_size }
    \cup { <<t, [chunk_size |-> Blocks(chunk_size),
                 chunk_overlap |-> Blocks(chunk_overlap)]>> :
             t \in {PlainDocument, SpacedDocument} }

InitLoad ==
    /\ files = [f \in FileNames |-> Absent]
    /\ store = [a \in Agents |-> NoStore]
    /\ SessionsInit
    /\ ChatInit
    /\ LoadInit
    /\ FormInit
    /\ doc_path \in FilePaths
    /\ doc_error \in {"none"} \cup LoaderErrors
    /\ \E in \in LoadInputs : doc_text = in[1] /\ splitter = in[2]

\* The except branch of load_document: whatever was raised, the same
\* exception type leaves the function, with the text of the cause in its
\* message.
except_branch(loader, e) == [type |-> "ValueError", cause |-> e]

\* load_document(file_path), the loader not raising.
load_document_call ==
    /\ nLoads < MaxLoads
    /\ doc_error = "none"
    /\ nLoads' = nLoads + 1
    /\ loaded_before' = loaded
    /\ loaded' = [loader |-> loader_for(doc_path),
                  chunks |-> split_text(doc_text, splitter.chunk_size,
                                        splitter.chunk_overlap),
                  raised |-> NoRaise]
    /\ UNCHANGED <<kbVars, buildVars, searchVars, chatVars, tie_order, sPrev,
                   attempts, formVars, doc_path, doc_text, doc_error, splitter>>

\* load_document(file_path), loader.load() raising doc_error.
load_document_raises ==
    /\ nLoads < MaxLoads
    /\ doc_error # "none"
    /\ nLoads' = nLoads + 1
    /\ loaded_before' = loaded
    /\ loaded' = [loader |-> loader_for(doc_path),
                  chunks |-> <<>>,
                  raised |-> except_branch(loader_for(doc_path), doc_error)]
    /\ UNCHANGED <<kbVars, buildVars, searchVars, chatVars, tie_order, sPrev,
                   attempts, formVars, doc_path, doc_text, doc_error, splitter>>

NextLoad ==
    \/ load_document_call
    \/ load_document_raises

SpecLoad == InitLoad /\ [][NextLoad]_vars

(***************************************************************************)
(* The build with the retries of the embedding client.  OpenAIEmbeddings   *)
(* is constructed with its defaults, and by default the client repeats an  *)
(* embedding request that failed with a timeout, a rate limit or a         *)
(* connection error, after a pause, until max_retries requests were made;  *)
(* the failure of the last request, and any other failure, is raised.      *)
(***************************************************************************)

\* max_retries of OpenAIEmbeddings when the caller gives none.
max_retries == 6

\* A mutation of may_retry: the client never gives up.
may_retry_forever(made) == TRUE

\* stop_after_attempt(max_retries): another request is made while fewer
\* than max_retries were made.
may_retry(made) == made < max_retries

\* The embedding request inside FAISS.from_documents fails with a transient
\* error and the client is going to repeat it.
EmbedTransient(t) ==
    /\ pc[t] = "load"
    /\ first_unreadable(file_paths[t], files) = "none"
    /\ load_all(file_paths[t], files) # <<>>
    /\ may_retry(attempts[t] + 1)
    /\ attempts' = [attempts EXCEPT ![t] = @ + 1]
    /\ pc' = [pc EXCEPT ![t] = "backoff"]
    /\ UNCHANGED <<chatVars, tie_order, sPrev, loadVars, formVars, kbVars, searchVars,
                   target, file_paths, vector_store, ret, err, nBuilds, pre,
                   solo, started>>

\* The pause is over and the request is made again.
Backoff(t) ==
    /\ pc[t] = "backoff"
    /\ pc' = [pc EXCEPT ![t] = "load"]
    /\ UNCHANGED <<chatVars, moreVars, kbVars, searchVars, target, file_paths,
                   vector_store, ret, err, nBuilds, pre, solo, started>>

\* A step of the call create_knowledge_base_for_agent of session t.
BuildStep(t) ==
    \/ LoadFail(t)
    \/ NoDocuments(t)
    \/ BuildIndex(t)
    \/ EmbedTransient(t)
    \/ Backoff(t)
    \/ EmbedFail(t)
    \/ SaveStep(t)
    \/ SaveFail(t)

\* The session whose builds SpecBuild follows.
Builder == "t1"

NextBuild ==
    \/ \E a \in Agents, ups \in UploadLists : Submit(Builder, a, ups)
    \/ LoadFail(Builder)
    \/ NoDocuments(Builder)
    \/ BuildIndex(Builder)
    \/ EmbedTransient(Builder)
    \/ Backoff(Builder)
    \/ EmbedFail(Builder)
    \/ SaveStep(Builder)
    \/ SaveFail(Builder)

\* The build is one synchronous call in the script run of its session: a
\* call that has begun keeps running, every request and every write it
\* waits for returns or raises, and the pause between two requests ends.
FairBuild == \A t \in Teachers : WF_vars(BuildStep(t))

SpecBuild == Init /\ [][NextBuild]_vars /\ FairBuild

(***************************************************************************)
(* create_new_agent, the handler of the form of the teacher: the uploads   *)
(* are stored, the agent is created, its settings are kept, the knowledge  *)
(* base is built when there are files, and the result is returned.  The    *)
(* build is taken as one step here, with the outcomes Spec shows it has.   *)
(***************************************************************************)
MaxForms == 2         \* forms submitted in one behaviour

\* uploaded_files of a form: none, or files of different names.
FormLists == {<<>>} \cup UploadLists

\* Where the id of the agent comes from: the record the API returned, a
\* uuid of Agent.__init__ when that record has no id, or the uuid of the
\* agent created locally after the API call raised.
AgentOrigins == {"api", "api_without_id", "local"}

\* A mutation of should_build: the build is invoked for every form.
should_build_always(paths) == TRUE

\* "if file_paths:"
should_build(paths) == paths # <<>>

\* The form is submitted and process_uploaded_file has stored every file.
submit_form(ups) ==
    /\ fpc \in {"idle", "returned"}
    /\ nForms < MaxForms
    /\ nForms' = nForms + 1
    /\ files' = write_uploads(files, ups)
    /\ form_paths' = paths_of(ups)
    /\ agent' = NoAgent
    /\ form_build' = NoCall
    /\ result' = NoResult
    /\ fpc' = "uploaded"
    /\ UNCHANGED <<store, kb, buildVars, searchVars, chatVars, tie_order, sPrev,
                   attempts, loadVars, created_agents, agent_settings>>

\* The form is submitted and process_uploaded_file raises on the n-th file:
\* the files before it are stored, the except branch returns the failure.
upload_raises(ups, n) ==
    /\ fpc \in {"idle", "returned"}
    /\ nForms < MaxForms
    /\ nForms' = nForms + 1
    /\ files' = write_uploads(files, SubSeq(ups, 1, n - 1))
    /\ form_paths' = paths_of(SubSeq(ups, 1, n - 1))
    /\ agent' = NoAgent
    /\ form_build' = NoCall
    /\ result' = NoResult
    /\ fpc' = "returned"
    /\ UNCHANGED <<store, kb, buildVars, searchVars, chatVars, tie_order, sPrev,
                   attempts, loadVars, created_agents, agent_settings>>

\* Agent.create returns the agent, appended to created_agents, and the
\* advanced settings are stored under its id.
create_agent(id, origin) ==
    /\ fpc = "uploaded"
    /\ agent' = [id |-> id, origin |-> origin, files |-> form_paths]
    /\ created_agents' = Append(created_agents, agent')
    /\ agent_settings' = agent_settings \cup {id}
    /\ fpc' = "created"
    /\ UNCHANGED <<kbVars, buildVars, searchVars, chatVars, tie_order, sPrev,
                   attempts, loadVars, form_paths, form_build, result, nForms>>

\* create_knowledge_base_for_agent(agent.id, file_paths) returns True: the
\* index is saved and the record written; then the result is returned.
build_succeeds ==
    /\ fpc = "created"
    /\ should_build(form_paths)
    /\ first_unreadable(form_paths, files) = "none"
    /\ load_all(form_paths, files) # <<>>
    /\ store' = [store EXCEPT ![vector_store_path(agent.id)] =
                    Saved(from_documents(load_all(form_paths, files)))]
    /\ kb' = [kb EXCEPT ![Builder][agent.id] =
                 kb_record(form_paths, load_all(form_paths, files))]
    /\ form_build' = [invoked |-> TRUE, agent_id |-> agent.id,
                      file_paths |-> form_paths, returned |-> "True"]
    /\ result' = [success |-> TRUE, agent_id |-> agent.id]
    /\ fpc' = "returned"
    /\ UNCHANGED <<files, buildVars, searchVars, chatVars, tie_order, sPrev,
                   attempts, loadVars, form_paths, agent, created_agents,
                   agent_settings, nForms>>

\* create_knowledge_base_for_agent(agent.id, file_paths) returns False: a
\* file could not be loaded, no chunk was loaded, the embedding raised
\* (the directory is as it was) or the save raised (begun is TRUE: the
\* directory is what its first step leaves); then the result is returned.
build_fails(begun) ==
    /\ fpc = "created"
    /\ should_build(form_paths)
    /\ begun => /\ first_unreadable(form_paths, files) = "none"
                /\ load_all(form_paths, files) # <<>>
    /\ store' = IF begun
                THEN [store EXCEPT ![vector_store_path(agent.id)] =
                         save_local_step("faiss_open", @,
                             from_documents(load_all(form_paths, files)))]
                ELSE store
    /\ form_build' = [invoked |-> TRUE, agent_id |-> agent.id,
                      file_paths |-> form_paths, returned |-> "False"]
    /\ result' = [success |-> TRUE, agent_id |-> agent.id]
    /\ fpc' = "returned"
    /\ UNCHANGED <<files, kb, buildVars, searchVars, chatVars, tie_order, sPrev,
                   attempts, loadVars, form_paths, agent, created_agents,
                   agent_settings, nForms>>

\* No file was uploaded: the result is returned without a build.
return_without_build ==
    /\ fpc = "created"
    /\ ~should_build(form_paths)
    /\ result' = [success |-> TRUE, agent_id |-> agent.id]
    /\ fpc' = "returned"
    /\ UNCHANGED <<kbVars, buildVars, searchVars, chatVars, tie_order, sPrev,
                   attempts, loadVars, form_paths, agent, created_agents,
                   agent_settings, form_build, nForms>>

NextForm ==
    \/ \E ups \in FormLists : submit_form(ups)
    \/ \E ups \in UploadLists : \E n \in DOMAIN ups : upload_raises(ups, n)
    \/ \E id \in Agents, origin \in AgentOrigins : create_agent(id, origin)
    \/ build_succeeds
    \/ \E begun \in BOOLEAN : build_fails(begun)
    \/ return_without_build

SpecForm == Init /\ [][NextForm]_vars

(***************************************************************************)
(* Properties of the knowledge base, checked under Spec.                   *)
(***************************************************************************)
Dir(agent_id) == store[vector_store_path(agent_id)]

\* t's build has returned False and no other build of its agent overlapped.
FailedAlone(t) == pc[t] = "done" /\ ret[t] = "False" /\ solo[t]
\* t's build has returned True and no other build of its agent overlapped.
BuiltAlone(t)  == pc[t] = "done" /\ ret[t] = "True" /\ solo[t]

\* C1: a build that fails, at whatever stage, leaves the index the agent
\* had before it intact: every search of the agent returns what it would
\* have returned before the build began.
C1_FailedBuildKeepsIndex ==
    \A t \in Teachers :
        FailedAlone(t) /\ Loadable(pre[t]) =>
            \A q \in Queries, k \in 1..MaxK :
                search_disk(Dir(target[t]), q, k) = search_disk(pre[t], q, k)

\* C2: a search that runs while the agent's index is rebuilt returns the
\* results of the index as it was when the search began or those of an
\* index that a build of that agent was saving meanwhile, and nothing else
\* (spc = "done": the search call itself did not raise; sWhole: a whole
\* index was there when the search began; solo: the builds of an agent came
\* one after the other).
C2_SearchSeesWholeIndex ==
    spc = "done" /\ sWhole /\ (\A t \in Teachers : solo[t])
        => sResult \in sAllowed

\* C3: when a build of an agent has succeeded, with no other build of that
\* agent running beside it, the agent's one directory holds the index of
\* that build's passages and nothing of an earlier build: the vectors and
\* the docstore are those of the passages loaded from its file list, and a
\* search returns passages of those files only.
C3_LatestBuildReplaces ==
    \A t \in Teachers :
        BuiltAlone(t) =>
            /\ Dir(target[t]) = Saved(vector_store[t])
            /\ \A i \in DOMAIN vector_store[t].docs :
                  \E j \in DOMAIN kb[t][target[t]].file_paths :
                      vector_store[t].docs[i].source = kb[t][target[t]].file_paths[j]
            /\ \A q \in Queries, k \in 1..MaxK :
                  search_disk(Dir(target[t]), q, k)
                      = search_loaded(vector_store[t], q, k)

\* C3 witness: a build replaced a loadable index that held other passages.
C3_Witness ==
    \E t \in Teachers :
        /\ BuiltAlone(t)
        /\ Loadable(pre[t])
        /\ pre[t].pkl.data # vector_store[t].docs

\* C4: no two builds of the same agent are in flight at the same time.
C4_OneBuildPerAgent ==
    \A t, u \in Teachers :
        t # u /\ InBuild(t) /\ InBuild(u) => target[t] # target[u]

\* C5: a search of an agent no build was ever started for returns the empty
\* sequence, for every query and every k.
C5_NoKnowledgeBaseIsEmpty ==
    spc \in {"done", "raised"} /\ sAgent \notin started => sResult = <<>>

\* C5 witness: such a search has returned while another agent has an index
\* that a search can load.
C5_Witness ==
    /\ spc = "done"
    /\ sAgent \notin started
    /\ \E a \in Agents : Loadable(store[a])

LastMessage == messages[Len(messages)]
Asked == turn.agent # None
RetrievalFailed == turn.retrieval \in {"corrupt", "raised"}

\* C6: when the retrieval of a chat turn fails (the index is corrupt or
\* unreadable, or the search raises), the model is invoked with the bare
\* question, and once it has answered the history ends with the user's
\* question followed by an assistant message that has no references.
C6_RetrievalFailureFallsBack ==
    Asked /\ RetrievalFailed =>
        /\ turn.context = <<>>
        /\ turn.answered =>
              /\ Len(messages) >= 2
              /\ messages[Len(messages) - 1].role = "user"
              /\ messages[Len(messages) - 1].content = turn.question
              /\ LastMessage.role = "assistant"
              /\ "references" \notin DOMAIN LastMessage

\* A turn answered although the search over a loadable index with passages
\* raised.
C6_Witness ==
    /\ Asked /\ turn.answered /\ turn.retrieval = "raised"
    /\ Whole(store[vector_store_path(turn.agent)])
    /\ LastMessage.role = "assistant"

\* C7: in an answered chat turn, a non-empty search result (k = 3) is put
\* into the prompt ahead of the question and the references stored with
\* the answer are exactly the passages that were put into the prompt; an
\* empty result gives the bare question and an answer without references.
C7_CitationsAreThePromptContext ==
    Asked /\ turn.answered =>
        IF turn.results # <<>>
        THEN /\ turn.context # <<>>
             /\ "references" \in DOMAIN LastMessage
             /\ [i \in 1..Len(LastMessage.references) |->
                    LastMessage.references[i].content] = turn.context
        ELSE /\ turn.context = <<>>
             /\ "references" \notin DOMAIN LastMessage

\* C8: the model that takes a chat turn is configured with the personality
\* of the agent current_agent_id names.
C8_PersonalityOfCurrentAgent ==
    Asked => /\ turn.agent = current_agent_id
             /\ turn.personality = Personality(current_agent_id)

\* The passages of the last build of the one session of SpecSearch, when
\* the search just made was for the agent of that build.
SearchedBuild ==
    /\ spc = "done"
    /\ pc["t1"] = "done" /\ ret["t1"] = "True"
    /\ sAgent = target["t1"]
BuiltDocs == vector_store["t1"].docs

\* The distance of a returned passage to the query of the search.
ResultDist(n) == Dist(Embed(sResult[n].content), Embed(sQuery))

Ordinal(n) ==
    CHOOSE i \in DOMAIN BuiltDocs :
        /\ BuiltDocs[i].page_content = sResult[n].content
        /\ BuiltDocs[i].source = sResult[n].metadata

\* C12: two returned passages at the same distance from the query come in
\* the order of their positions in the index.
C12_TiesByOrdinal ==
    SearchedBuild =>
        \A n, m \in DOMAIN sResult :
            n < m /\ ResultDist(n) = ResultDist(m) => Ordinal(n) < Ordinal(m)

C14_Attribution ==
    SearchedBuild =>
        /\ \A n \in DOMAIN sResult :
              \E j \in DOMAIN file_paths["t1"] :
                  /\ sResult[n].metadata = file_paths["t1"][j]
                  /\ \E d \in DOMAIN BuiltDocs :
                        /\ BuiltDocs[d].page_content = sResult[n].content
                        /\ BuiltDocs[d].source = file_paths["t1"][j]
                  /\ \E g \in DOMAIN files[file_paths["t1"][j]].segs :
                        files[file_paths["t1"][j]].segs[g] = sResult[n].content
        /\ \A i \in DOMAIN BuiltDocs :
              (\A j \in DOMAIN BuiltDocs \ {i} :
                  Dist(Embed(BuiltDocs[i].page_content), Embed(sQuery))
                    < Dist(Embed(BuiltDocs[j].page_content), Embed(sQuery)))
              => /\ sResult[1].content = BuiltDocs[i].page_content
                 /\ sResult[1].metadata = BuiltDocs[i].source

\* An index from two files, the query nearest to a passage of the second.
C14_Witness ==
    /\ SearchedBuild
    /\ Len(file_paths["t1"]) = 2
    /\ Len(sResult) >= 2
    /\ sResult[1].metadata = file_paths["t1"][2]
    /\ sResult[2].metadata = file_paths["t1"][1]
    /\ ResultDist(1) < ResultDist(2)

\* The chunks of the last load_document call, and the chunks with the
\* first drop characters left out.
Chunks == loaded.chunks
Dropped(chunk, drop) == SubSeq(chunk, drop + 1, Len(chunk))

\* The chunks from the n-th on put together, each without the overlap it
\* shares with the one before, the last without last_overlap characters.
RECURSIVE Reassembled(_, _, _)
Reassembled(n, overlap, last_overlap) ==
    IF n > Len(Chunks) THEN <<>>
    ELSE Dropped(Chunks[n], IF n = 1 THEN 0
                            ELSE IF n = Len(Chunks) THEN last_overlap
                            ELSE overlap)
         \o Reassembled(n + 1, overlap, last_overlap)

\* C15: for a chunk size C and an overlap O < C, every chunk has at most C
\* characters, every two consecutive chunks before the last one share
\* exactly O characters, the chunks without their overlaps give back the
\* text, and a text shorter than C is one chunk.
C15_SlidingWindows ==
    nLoads > 0 /\ loaded.raised = NoRaise =>
        LET size    == splitter.chunk_size
            overlap == splitter.chunk_overlap
        IN  /\ \A n \in DOMAIN Chunks : Len(Chunks[n]) <= size
            /\ \A n \in 1..(Len(Chunks) - 2) :
                  /\ Len(Chunks[n]) >= overlap /\ Len(Chunks[n + 1]) >= overlap
                  /\ SubSeq(Chunks[n], Len(Chunks[n]) - overlap + 1, Len(Chunks[n]))
                       = SubSeq(Chunks[n + 1], 1, overlap)
            /\ \E last_overlap \in 0..size :
                  Reassembled(1, overlap, last_overlap) = doc_text
            /\ (0 < Len(doc_text) /\ Len(doc_text) < size) => Len(Chunks) = 1

\* C16: a document of 2500 characters, split with chunk_size 1000 and
\* overlap 200, gives three chunks of 1000, 1000 and 700 characters, cut at
\* [0,1000), [800,1800) and [1600,2500).
C16_Document2500 ==
    (/\ nLoads > 0 /\ loaded.raised = NoRaise
     /\ Len(doc_text) = Blocks(2500)
     /\ splitter = [chunk_size |-> Blocks(1000), chunk_overlap |-> Blocks(200)])
    => /\ [n \in DOMAIN Chunks |-> Len(Chunks[n])]
            = <<Blocks(1000), Blocks(1000), Blocks(700)>>
       /\ Chunks = << SubSeq(doc_text, Blocks(0) + 1, Blocks(1000)),
                      SubSeq(doc_text, Blocks(800) + 1, Blocks(1800)),
                      SubSeq(doc_text, Blocks(1600) + 1, Blocks(2500)) >>

C18_LoaderByExtension ==
    nLoads > 0 =>
        loaded.loader =
            (CASE doc_path \in {"n.pdf", "n.PDF", "n.Pdf"} -> "PyPDFLoader"
               [] doc_path \in {"n.txt", "n.TXT", "n.md", "n.Md"} -> "TextLoader"
               [] doc_path \in {"n.csv", "n.CSV"} -> "CSVLoader"
               [] OTHER -> "UnstructuredFileLoader")

\* A path with an upper-case extension was loaded.
C18_Witness ==
    nLoads > 0 /\ doc_path = "n.PDF" /\ loaded.loader = "PyPDFLoader"

\* t's build has returned without an exception caught and without an index
\* built: its files were read and gave no chunk.
BuiltNothing(t) ==
    pc[t] = "done" /\ err[t] = NoErr /\ vector_store[t] = NoIndex

\* C19: files that are read without an exception and give no chunk are not
\* an error: the build that loaded them does not return the value it
\* returns for a failure.
C19_EmptyIsNotAnError ==
    \A t \in Teachers : BuiltNothing(t) => ret[t] # "False"

\* t's build was ended by the embedding call raising, and no other build of
\* its agent overlapped.
EmbedFailedAlone(t) ==
    pc[t] = "done" /\ err[t].stage = "embed" /\ solo[t]

C9_OtherAgentsUntouched ==
    [][\A t \in Teachers :
          pc'[t] # pc[t] =>
              \A b \in Agents \ {target'[t]} :
                  /\ Dir(b)' = Dir(b)
                  /\ \A u \in Teachers :
                        /\ kb'[u][b] = kb[u][b]
                        /\ \A i \in DOMAIN kb[u][b].file_paths :
                              files'[kb[u][b].file_paths[i]]
                                  = files[kb[u][b].file_paths[i]]]_vars

\* C10: what a failed build returns tells its caller the stage that failed
\* and the file: two builds that failed differently return different values.
C10_FailureNamesStage ==
    \A t, u \in Teachers :
        /\ pc[t] = "done" /\ ret[t] # "True"
        /\ pc[u] = "done" /\ ret[u] # "True"
        /\ err[t] # err[u]
        => ret[t] # ret[u]

\* The variables a step of similarity_search sets.
searchCall == <<spc, sAgent, sQuery, sK, sVecs, sResult>>

\* C21: a step of similarity_search, whether the call returns passages,
\* finds no index or raises inside, leaves the uploaded files, the index
\* directories of all agents and the records in session state as they are.
C21_SearchReadOnly ==
    [][searchCall' # searchCall => UNCHANGED <<files, store, kb>>]_vars

\* A search has raised inside for an agent whose index is whole and
\* recorded in the session that built it.
C21_Witness ==
    /\ spc = "raised"
    /\ Whole(Dir(sAgent))
    /\ \E t \in Teachers : kb[t][sAgent] # NoRecord


\* The paths process_uploaded_file has returned to session t for its last
\* form.
Returned(t) == {file_paths[t][i] : i \in DOMAIN file_paths[t]}

\* C22: the file at a path that an upload has returned keeps the content
\* that was uploaded then, whatever is uploaded afterwards and by whom.
C22_StoredDocumentKept ==
    [][\A t \in Teachers : \A f \in Returned(t) : files'[f] = files[f]]_vars


\* C23: with every persisted index the identifier of the embedding model
\* that embedded its passages is recorded, for a search to compare it with
\* the model that embeds the query.
C23_ModelRecorded ==
    \A a \in Agents : Loadable(Dir(a)) => "embedding_model" \in DOMAIN Dir(a)


\* The results of the turn whose content went into the prompt, and the
\* ones left out.
Kept    == 1..Len(turn.context)
LeftOut == (Len(turn.context) + 1)..Len(turn.results)

\* C24: the prompt of a chat turn holds the content of at most ContextRefs
\* retrieved passages, and these are the best of the search: no passage
\* left out is nearer to the question than a passage that was put in.
C24_ContextCapKeepsBest ==
    Asked =>
        /\ Len(turn.context) <= ContextRefs
        /\ Len(turn.context) <= Len(turn.results)
        /\ \A j \in Kept : turn.context[j] = turn.results[j].content
        /\ \A j \in Kept : \A i \in LeftOut :
               turn.results[j].relevance_score <= turn.results[i].relevance_score

\* A turn whose search returned three passages, the third farther from the
\* question than the two that went into the prompt.
C24_Witness ==
    /\ Asked /\ turn.answered
    /\ Len(turn.results) = 3 /\ Len(turn.context) = 2
    /\ turn.results[3].relevance_score > turn.results[2].relevance_score


\* The loaders load_document chooses for an extension it names.
Recognized == {"PyPDFLoader", "TextLoader", "CSVLoader"}

\* C25: the failure of load_document on a file with a recognized extension
\* carries what the loader raised and is of another kind than the failure
\* that reports an unsupported format, the one load_document raises when
\* the generic loader of an unrecognized extension raises.
C25_FailuresDistinguished ==
    (nLoads > 0 /\ loaded.raised # NoRaise /\ loaded.loader \in Recognized) =>
        /\ loaded.raised.cause = doc_error
        /\ \A e \in LoaderErrors :
              loaded.raised.type # except_branch("UnstructuredFileLoader", e).type


\* C26: similarity_search returns to its caller in every case, and with the
\* empty list when the agent has no index, when the index cannot be loaded
\* and when the search on the loaded index raises, so that a corrupt index
\* and a missing one look the same to the caller.
C26_SearchFailuresAreEmpty ==
    Asked /\ turn.retrieval \in {"absent", "corrupt", "raised"} =>
        turn.results = <<>>

\* A turn of an agent whose index directory is there and cannot be loaded.
C26_Witness ==
    /\ Asked
    /\ turn.retrieval = "corrupt"
    /\ store[vector_store_path(turn.agent)].faiss.st = "full"
    /\ turn.results = <<>>


\* The step in which the build of session t returns value.
Returns(t, value) == ret'[t] = value /\ ret[t] # value

\* C27: the build returns True in the step that follows the last write of
\* save_local, and in that step it puts the record of the agent it built
\* into its session state, with the number of its file paths and of its
\* passages; no other step changes a record, and a step that returns False
\* changes none.
C27_RecordFollowsIndex ==
    [][\A t \in Teachers :
          /\ Returns(t, "True") =>
                /\ pc[t] = "pkl_write"
                /\ Dir(target[t])'.pkl = Written(vector_store[t].docs)
                /\ solo[t] => Dir(target[t])' = Saved(vector_store[t])
                /\ kb'[t][target[t]].file_count = Len(file_paths[t])
                /\ kb'[t][target[t]].chunk_count = Len(vector_store[t].docs)
                /\ kb'[t][target[t]].file_paths = file_paths[t]
          /\ kb'[t] # kb[t] =>
                /\ Returns(t, "True")
                /\ \A a \in Agents \ {target[t]} : kb'[t][a] = kb[t][a]
          /\ Returns(t, "False") => kb' = kb]_vars

\* A build of one file with two passages has returned True and its record
\* is in the session state.
C27_Witness ==
    \E t \in Teachers :
        /\ BuiltAlone(t)
        /\ kb[t][target[t]].file_count = 1
        /\ kb[t][target[t]].chunk_count = 2


\* C28: the conversation history handed to the model in a turn with an
\* agent holds no exchange that took place in the chat with another agent.
C28_NoMemoryAcrossAgents ==
    Asked => turn.history_of \subseteq {turn.agent}


\* C29: a chat turn appends to the history one user message with the
\* input, then one assistant message, which has the references key exactly
\* when the search of the turn returned a passage; the messages that were
\* there stay as they are.
C29_TurnAppendsPair ==
    [][nTurns' = nTurns + 1 =>
          /\ Len(messages') = Len(messages) + 2
          /\ SubSeq(messages', 1, Len(messages)) = messages
          /\ messages'[Len(messages) + 1] =
                 [role |-> "user", content |-> turn'.question]
          /\ messages'[Len(messages) + 2].role = "assistant"
          /\ "references" \in DOMAIN messages'[Len(messages) + 2]
                 <=> turn'.results # <<>>]_vars


\* C30: when create_new_agent has returned after creating the agent, it has
\* invoked the build exactly if the form had files, with the id of the
\* agent Agent.create returned and the paths of the uploads, and it reports
\* success with that id whatever the build returned; a build is invoked
\* only once the agent is created.
C30_BuildFollowsAgent ==
    /\ form_build.invoked =>
          /\ agent # NoAgent
          /\ \E i \in DOMAIN created_agents : created_agents[i] = agent
          /\ form_build.agent_id = agent.id
          /\ form_build.file_paths = form_paths
    /\ (fpc = "returned" /\ agent # NoAgent) =>
          /\ form_build.invoked <=> form_paths # <<>>
          /\ result = [success |-> TRUE, agent_id |-> agent.id]

\* The form of an agent created locally after the API failed has returned
\* success although its build returned False.
C30_Witness ==
    /\ fpc = "returned"
    /\ agent.origin = "local"
    /\ form_build.invoked /\ form_build.returned = "False"
    /\ result = [success |-> TRUE, agent_id |-> agent.id]

====
